---- MODULE Spec2Model ----
(***************************************************************************)
(* Startup-Investor Matchmaking API (src/main.py, src/schemas.py).         *)
(*                                                                         *)
(* The HTTP handlers of main.py are the actions.  The document store they  *)
(* call (database.create_document / database.get_documents) is imported by *)
(* main.py but its code is not among the sources; it is modelled from      *)
(* section 4.1 of the specification, in its configured mode.               *)
(*                                                                         *)
(* Conventions                                                             *)
(*   - A Python value that may be None is a sequence of length <= 1:       *)
(*     None is <<>> and the value x is <<x>>.  The empty string "" and the *)
(*     empty list [] are values, so they are <<"">> and << <<>> >>.        *)
(*   - Texts that are searched (name, tagline, q) are sequences of         *)
(*     characters; tags, stages and geographies are atomic strings.        *)
(*   - Scores are counted in thousandths: 0.15 is 150, 1.0 is 1000.  The   *)
(*     weights of the scorer are multiples of 0.05, so the arithmetic is   *)
(*     exact in these units.                                               *)
(***************************************************************************)
EXTENDS Integers, Sequences, FiniteSets, TLC

VARIABLES
    startups,      \* collection "startup": documents in storage order
    investors,     \* collection "investor"
    activitylog,   \* collection "activitylog"
    nextOid,       \* the store's identifier generator
    client_id,     \* os.getenv("GOOGLE_CLIENT_ID")
    req,           \* the request being answered
    resp,          \* the answer to it
    returned       \* identifiers answered by the create handlers so far

vars == <<startups, investors, activitylog, nextOid, client_id, req, resp, returned>>

-----------------------------------------------------------------------------
(* Bounds of the model *)

MaxListDocs == 2      \* documents created in the listing study
MaxMatchDocs == 2     \* documents created in the matching study
MaxLog == 2           \* documents in "activitylog"
MaxBulkStartups == 8  \* startups of a bulk-loaded store
MaxBulkInvestors == 7 \* investors of a bulk-loaded store
NumTags == 5          \* distinct industry tags of the overlap study

-----------------------------------------------------------------------------
(* Python values *)

None == <<>>
Some(x) == <<x>>

\* truthiness of an Optional[str]: None and "" are falsy
TruthyStr(o) == o # None /\ o[1] # ""

\* truthiness of an Optional[List[str]]: None and [] are falsy
TruthyList(o) == o # None /\ Len(o[1]) > 0

\* truthiness of an Optional text (sequence of characters)
TruthyText(o) == o # None /\ Len(o[1]) > 0

\* set(list)
ToSet(seq) == {seq[k] : k \in DOMAIN seq}

Min(a, b) == IF a <= b THEN a ELSE b
Max(a, b) == IF a >= b THEN a ELSE b

\* the literals of Startup.stage and Investor.preferred_stage
StageLiterals == {"idea", "MVP", "pre-seed", "seed", "series-a", "series-b"}

-----------------------------------------------------------------------------
(* The document store (database.py) *)

\* str(ObjectId): the decimal digits of the generated identifier
OidStr(oid) == ToString(oid)

Lower(c) == CASE c = "A" -> "a" [] c = "B" -> "b" [] OTHER -> c

\* {"$regex": pat, "$options": "i"} for a pattern of plain characters:
\* the pattern occurs in the text, letter case ignored
ContainsCI(text, pat) ==
    \E k \in 0..(Len(text) - Len(pat)) :
        \A j \in 1..Len(pat) : Lower(text[k + j]) = Lower(pat[j])

\* one clause of a filter document against one stored document
ClauseHolds(doc, c) ==
    CASE c.op = "$in"    -> \E v \in ToSet(c.val) : v \in ToSet(doc[c.field])
      [] c.op = "$eq"    -> doc[c.field] = Some(c.val)
      [] c.op = "$regex" -> doc[c.field] # None /\ ContainsCI(doc[c.field][1], c.val)
      [] c.op = "$or"    -> \E k \in DOMAIN c.val :
                               /\ c.val[k].op = "$regex"
                               /\ doc[c.val[k].field] # None
                               /\ ContainsCI(doc[c.val[k].field][1], c.val[k].val)

\* a filter document is the conjunction of its clauses; {} matches everything
Matches(doc, filt) == \A k \in DOMAIN filt : ClauseHolds(doc, filt[k])

\* get_documents(collection, filt): the matching documents in storage order
get_documents(coll, filt) ==
    LET Test(d) == Matches(d, filt) IN SelectSeq(coll, Test)

\* the document create_document stores: the payload's fields plus _id
Stored(payload, oid) == [f \in DOMAIN payload \cup {"_id"} |->
                            IF f = "_id" THEN oid ELSE payload[f]]

-----------------------------------------------------------------------------
(* Schemas (schemas.py) *)

\* the payloads are taken after the schema's defaults are filled in
ValidStartup(p) ==
    /\ p.name # None
    /\ p.stage # None /\ p.stage[1] \in StageLiterals

ValidInvestor(p) ==
    /\ p.name # None
    /\ ToSet(p.preferred_stage) \subseteq StageLiterals
    /\ p.ticket_min # None => p.ticket_min[1] >= 0
    /\ p.ticket_max # None => p.ticket_max[1] >= 0

-----------------------------------------------------------------------------
(* State after start-up: an empty store *)

NoReq == [op |-> "none"]
NoResp == [op |-> "none", status |-> 0]

InitWith(cid) ==
    /\ startups = <<>>
    /\ investors = <<>>
    /\ activitylog = <<>>
    /\ nextOid = 1
    /\ client_id = cid
    /\ req = NoReq
    /\ resp = NoResp
    /\ returned = {}

-----------------------------------------------------------------------------
(* Startup and investor endpoints *)

\* the model stops creating documents at a bound
StoreRoom(max) == Len(startups) + Len(investors) < max

\* an unhandled exception of the store adapter reaches the client as a 500
ServerError(op) == [op |-> op, status |-> 500]
\* a body that fails its schema is refused before the handler runs
Unprocessable(op) == [op |-> op, status |-> 422]

\* POST /api/startups
create_startup(payload, up) ==
    /\ req' = [op |-> "create_startup", payload |-> payload, up |-> up]
    /\ IF ~ValidStartup(payload)
       THEN /\ resp' = Unprocessable("create_startup")
            /\ UNCHANGED <<startups, nextOid, returned>>
       ELSE IF ~up
       THEN /\ resp' = ServerError("create_startup")
            /\ UNCHANGED <<startups, nextOid, returned>>
       ELSE /\ startups' = Append(startups, Stored(payload, nextOid))
            /\ nextOid' = nextOid + 1
            /\ resp' = [op |-> "create_startup", status |-> 200, id |-> OidStr(nextOid)]
            /\ returned' = returned \cup {<<"startup", OidStr(nextOid)>>}
    /\ UNCHANGED <<investors, activitylog, client_id>>

\* POST /api/investors
create_investor(payload, up) ==
    /\ req' = [op |-> "create_investor", payload |-> payload, up |-> up]
    /\ IF ~ValidInvestor(payload)
       THEN /\ resp' = Unprocessable("create_investor")
            /\ UNCHANGED <<investors, nextOid, returned>>
       ELSE IF ~up
       THEN /\ resp' = ServerError("create_investor")
            /\ UNCHANGED <<investors, nextOid, returned>>
       ELSE /\ investors' = Append(investors, Stored(payload, nextOid))
            /\ nextOid' = nextOid + 1
            /\ resp' = [op |-> "create_investor", status |-> 200, id |-> OidStr(nextOid)]
            /\ returned' = returned \cup {<<"investor", OidStr(nextOid)>>}
    /\ UNCHANGED <<startups, activitylog, client_id>>

\* faulty variant: each parameter replaces the filter instead of adding to it
StartupFilterLastWins(industry, stage, q) ==
    IF TruthyText(q)
    THEN << [field |-> "$or", op |-> "$or", val |->
               << [field |-> "name", op |-> "$regex", val |-> q[1]],
                  [field |-> "tagline", op |-> "$regex", val |-> q[1]] >>] >>
    ELSE IF TruthyStr(stage)
    THEN << [field |-> "stage", op |-> "$eq", val |-> stage[1]] >>
    ELSE IF TruthyStr(industry)
    THEN << [field |-> "industry", op |-> "$in", val |-> <<industry[1]>>] >>
    ELSE <<>>

\* the filter document list_startups builds from its query parameters
StartupFilter(industry, stage, q) ==
    (IF TruthyStr(industry)
        THEN << [field |-> "industry", op |-> "$in", val |-> <<industry[1]>>] >>
        ELSE <<>>)
    \o (IF TruthyStr(stage)
        THEN << [field |-> "stage", op |-> "$eq", val |-> stage[1]] >>
        ELSE <<>>)
    \o (IF TruthyText(q)
        THEN << [field |-> "$or", op |-> "$or", val |->
                   << [field |-> "name", op |-> "$regex", val |-> q[1]],
                      [field |-> "tagline", op |-> "$regex", val |-> q[1]] >>] >>
        ELSE <<>>)

\* the filter document list_investors builds from its query parameters
InvestorFilter(domain, stage, geo) ==
    (IF TruthyStr(domain)
        THEN << [field |-> "domains", op |-> "$in", val |-> <<domain[1]>>] >>
        ELSE <<>>)
    \o (IF TruthyStr(stage)
        THEN << [field |-> "preferred_stage", op |-> "$in", val |-> <<stage[1]>>] >>
        ELSE <<>>)
    \o (IF TruthyStr(geo)
        THEN << [field |-> "geography", op |-> "$eq", val |-> geo[1]] >>
        ELSE <<>>)

\* faulty variant: the key is looked up under another name and never found
StrIdBroken(d) == [d EXCEPT !["_id"] = None]

\* d["_id"] = str(d["_id"]) if "_id" in d else None
StrId(d) == IF "_id" \in DOMAIN d THEN [d EXCEPT !["_id"] = Some(OidStr(d["_id"]))]
                                  ELSE [f \in DOMAIN d \cup {"_id"} |->
                                           IF f = "_id" THEN None ELSE d[f]]

StrIds(docs) == [k \in DOMAIN docs |-> StrId(docs[k])]

\* GET /api/startups
list_startups(industry, stage, q, up) ==
    /\ req' = [op |-> "list_startups", industry |-> industry, stage |-> stage,
               q |-> q, up |-> up]
    /\ resp' = IF ~up THEN ServerError("list_startups")
               ELSE [op |-> "list_startups", status |-> 200,
                     docs |-> StrIds(get_documents(startups,
                                                   StartupFilter(industry, stage, q)))]
    /\ UNCHANGED <<startups, investors, activitylog, nextOid, client_id, returned>>

\* GET /api/investors
list_investors(domain, stage, geo, up) ==
    /\ req' = [op |-> "list_investors", domain |-> domain, stage |-> stage,
               geo |-> geo, up |-> up]
    /\ resp' = IF ~up THEN ServerError("list_investors")
               ELSE [op |-> "list_investors", status |-> 200,
                     docs |-> StrIds(get_documents(investors,
                                                   InvestorFilter(domain, stage, geo)))]
    /\ UNCHANGED <<startups, investors, activitylog, nextOid, client_id, returned>>

-----------------------------------------------------------------------------
(* Inputs of the listing study *)

StartupPayload(name, tagline, industry, stage) ==
    [name |-> name, tagline |-> tagline, industry |-> industry, stage |-> stage]

InvestorPayload(name, domains, pstage, geo, tmin, tmax) ==
    [name |-> name, domains |-> domains, preferred_stage |-> pstage,
     geography |-> geo, ticket_min |-> tmin, ticket_max |-> tmax]

ListStartupPayloads ==
    { StartupPayload(Some(<<"a", "B">>), None, <<"fintech", "ai">>, Some("seed")),
      StartupPayload(Some(<<"b">>), Some(<<"A">>), <<"fintech">>, Some("idea")),
      StartupPayload(Some(<<>>), Some(<<>>), <<>>, Some("seed")),
      StartupPayload(Some(<<"b">>), None, <<"ai", "ai">>, Some("bogus")) }

ListInvestorPayloads ==
    { InvestorPayload(Some(<<"a">>), <<"fintech">>, <<"pre-seed", "seed">>, Some("eu"), None, None),
      InvestorPayload(Some(<<"b">>), <<"fintech", "ai">>, <<"idea">>, None, Some(0), Some(100)),
      InvestorPayload(Some(<<"b">>), <<>>, <<>>, Some(""), None, None),
      InvestorPayload(Some(<<"a">>), <<"ai">>, <<"seed">>, Some("us"), Some(-1), None) }

TagParams == {None, Some(""), Some("fintech")}
StageParams == {None, Some(""), Some("seed")}
GeoParams == {None, Some(""), Some("eu")}
TextParams == {None, Some(<<>>), Some(<<"a">>), Some(<<"A", "b">>)}

NextStore ==
    \/ /\ StoreRoom(MaxListDocs)
       /\ \E p \in ListStartupPayloads, up \in BOOLEAN : create_startup(p, up)
    \/ /\ StoreRoom(MaxListDocs)
       /\ \E p \in ListInvestorPayloads, up \in BOOLEAN : create_investor(p, up)
    \/ \E i \in TagParams, s \in StageParams, q \in TextParams, up \in BOOLEAN :
          list_startups(i, s, q, up)
    \/ \E d \in TagParams, s \in StageParams, g \in GeoParams, up \in BOOLEAN :
          list_investors(d, s, g, up)

SpecStore == InitWith(None) /\ [][NextStore]_vars

-----------------------------------------------------------------------------
(* Matchmaking (baseline heuristic) *)

IndustryTagWeight == 100   \* 0.1 per shared tag
IndustryCap == 400         \* min(0.4, ...)
StageWeight == 200         \* s += 0.2
GeographyWeight == 100     \* s += 0.1
TicketWeight == 150        \* s += 0.15, twice
MinScore == 200            \* if sc >= 0.2
MaxResults == 50           \* results[:50]
One == 1000                \* 1.0

\* faulty variant: the startup's tags are counted as listed, repeats included
OverlapWithRepeats(si, body) ==
    Cardinality({k \in DOMAIN si.industry : si.industry[k] \in ToSet(body.industry[1])})

\* len(set(si.get("industry", [])) & set(body.industry))
Overlap(si, body) == Cardinality(ToSet(si.industry) \cap ToSet(body.industry[1]))

IndustryComponent(si, body) ==
    IF TruthyList(body.industry)
    THEN Min(IndustryCap, IndustryTagWeight * Overlap(si, body))
    ELSE 0

StageComponent(si, body) ==
    IF TruthyStr(body.stage) /\ body.stage = si.stage THEN StageWeight ELSE 0

\* faulty variant: the geographies are compared without the truthiness test
GeographyComponentUnguarded(inv, body) ==
    IF body.geography = inv.geography THEN GeographyWeight ELSE 0

\* if body.geography and body.geography == inv.get("geography")
GeographyComponent(inv, body) ==
    IF TruthyStr(body.geography) /\ body.geography = inv.geography
    THEN GeographyWeight ELSE 0

TicketMinComponent(inv, body) ==
    IF /\ body.ticket_min # None
       /\ inv.ticket_min # None
       /\ inv.ticket_min[1] <= body.ticket_min[1]
    THEN TicketWeight ELSE 0

TicketMaxComponent(inv, body) ==
    IF /\ body.ticket_max # None
       /\ inv.ticket_max # None
       /\ inv.ticket_max[1] >= body.ticket_max[1]
    THEN TicketWeight ELSE 0

\* the sum s before the final clamp
RawScore(si, inv, body) ==
    IndustryComponent(si, body) + StageComponent(si, body)
    + GeographyComponent(inv, body)
    + TicketMinComponent(inv, body) + TicketMaxComponent(inv, body)

\* faulty variant: the score is returned as a percentage
scorePercent(si, inv, body) == Max(0, Min(100 * One, 100 * RawScore(si, inv, body)))

\* def score(si, inv): ... return max(0.0, min(1.0, s))
score(si, inv, body) == Max(0, Min(One, RawScore(si, inv, body)))

\* faulty variant: every positive score is kept
KeepsPositive(sc) == sc > 0

\* if sc >= 0.2
Keeps(sc) == sc >= MinScore

\* round(sc, 2): to the nearest hundredth, a half to the even neighbour
Round2(sc) ==
    LET h == sc \div 10
        r == sc % 10
    IN  IF r < 5 THEN 10 * h
        ELSE IF r > 5 THEN 10 * (h + 1)
        ELSE IF h % 2 = 0 THEN 10 * h ELSE 10 * (h + 1)

\* Match(a_id=..., a_type="startup", b_id=..., b_type="investor", score=..., rationale=...)
MakeMatch(si, inv, sc) ==
    [a_id |-> OidStr(si["_id"]), a_type |-> "startup",
     b_id |-> OidStr(inv["_id"]), b_type |-> "investor",
     score |-> Round2(sc), rationale |-> "Heuristic overlap on filters"]

\* Match.score: float = Field(0.0, ge=0, le=1)
ValidMatch(m) == m.score >= 0 /\ m.score <= One

\* for s in startups: for i in investors: the k-th pair the loops visit
PairAt(ss, is, k) ==
    <<ss[((k - 1) \div Len(is)) + 1], is[((k - 1) % Len(is)) + 1]>>

\* results after the loops: a Match for every pair that is kept
Candidates(ss, is, body) ==
    LET all == [k \in 1..(Len(ss) * Len(is)) |->
                   LET pr == PairAt(ss, is, k)
                   IN  [si |-> pr[1], inv |-> pr[2], sc |-> score(pr[1], pr[2], body)]]
        Kept(c) == Keeps(c.sc)
        kept == SelectSeq(all, Kept)
    IN  [k \in DOMAIN kept |-> MakeMatch(kept[k].si, kept[k].inv, kept[k].sc)]

\* list.sort(key=lambda m: m.score, reverse=True): a stable sort, greatest
\* score first; equal scores keep the order the loops produced.  The elements
\* of the first score in the order, then those of the next, and so on.
RECURSIVE SortedBy(_, _, _)
SortedBy(ms, scores, ascending) ==
    IF scores = {} THEN <<>>
    ELSE LET first == IF ascending
                      THEN CHOOSE x \in scores : \A y \in scores : x <= y
                      ELSE CHOOSE x \in scores : \A y \in scores : x >= y
             Is(m) == m.score = first
         IN  SelectSeq(ms, Is) \o SortedBy(ms, scores \ {first}, ascending)

\* faulty variant: reverse=True left out
SortAscending(ms) == SortedBy(ms, {ms[k].score : k \in DOMAIN ms}, TRUE)

SortDescending(ms) == SortedBy(ms, {ms[k].score : k \in DOMAIN ms}, FALSE)

\* results[:50]
Cap(ms) == SubSeq(ms, 1, Min(MaxResults, Len(ms)))

\* POST /api/matchmaking
get_matches(body, up) ==
    /\ req' = [op |-> "get_matches", body |-> body, up |-> up]
    /\ resp' = IF ~up THEN ServerError("get_matches")
               ELSE LET results == Candidates(startups, investors, body)
                    IN  IF \E k \in DOMAIN results : ~ValidMatch(results[k])
                        THEN ServerError("get_matches")
                        ELSE [op |-> "get_matches", status |-> 200,
                              matches |-> Cap(SortDescending(results))]
    /\ UNCHANGED <<startups, investors, activitylog, nextOid, client_id, returned>>

MatchQuery(industry, stage, geography, tmin, tmax) ==
    [industry |-> industry, stage |-> stage, geography |-> geography,
     ticket_min |-> tmin, ticket_max |-> tmax]

-----------------------------------------------------------------------------
(* Inputs of the matching study *)

MatchStartupPayloads ==
    { StartupPayload(Some(<<"a">>), None, <<>>, Some("idea")),
      StartupPayload(Some(<<"a">>), None, <<"fintech">>, Some("seed")),
      StartupPayload(Some(<<"a">>), None,
                     <<"fintech", "ai", "health", "edu", "fintech">>, Some("seed")) }

MatchInvestorPayloads ==
    { InvestorPayload(Some(<<"b">>), <<>>, <<"pre-seed", "seed">>, None, Some(0), None),
      InvestorPayload(Some(<<"b">>), <<>>, <<"pre-seed", "seed">>, Some("eu"), Some(50), Some(100)),
      InvestorPayload(Some(<<"b">>), <<>>, <<"pre-seed", "seed">>, Some(""), Some(150), Some(80)) }

MatchBodies ==
    { MatchQuery(ind, st, geo, tmin, tmax) :
        ind \in {None, Some(<<>>), Some(<<"edu", "health", "ai", "fintech", "ai">>)},
        st \in {None, Some("seed")},
        geo \in {None, Some(""), Some("eu")},
        tmin \in {None, Some(100)},
        tmax \in {None, Some(100)} }

NextMatch ==
    \/ /\ StoreRoom(MaxMatchDocs)
       /\ \E p \in MatchStartupPayloads, up \in BOOLEAN : create_startup(p, up)
    \/ /\ StoreRoom(MaxMatchDocs)
       /\ \E p \in MatchInvestorPayloads, up \in BOOLEAN : create_investor(p, up)
    \/ \E b \in MatchBodies, up \in BOOLEAN : get_matches(b, up)

SpecMatch == InitWith(None) /\ [][NextMatch]_vars

-----------------------------------------------------------------------------
(* A bulk-loaded store: enough pairs for the cap of the result list to act *)

BulkStartupKinds ==
    << StartupPayload(Some(<<"a">>), None, <<"fintech", "ai", "fintech">>, Some("seed")),
       StartupPayload(Some(<<"b">>), None, <<>>, Some("idea")),
       StartupPayload(Some(<<"a">>), None, <<"fintech">>, Some("seed")) >>

BulkInvestorKinds ==
    << InvestorPayload(Some(<<"a">>), <<>>, <<"seed">>, Some("eu"), Some(50), Some(200)),
       InvestorPayload(Some(<<"b">>), <<>>, <<"seed">>, None, None, None),
       InvestorPayload(Some(<<"b">>), <<>>, <<"seed">>, Some("us"), Some(150), Some(80)) >>

\* n documents created one after the other, their payloads cycling through
\* the first `period` kinds; identifiers follow on from `first`
BulkDocs(kinds, n, period, first) ==
    [k \in 1..n |-> Stored(kinds[((k - 1) % period) + 1], first + k - 1)]

InitBulk ==
    \E ns \in 0..MaxBulkStartups, ni \in 0..MaxBulkInvestors,
       ps \in 1..Len(BulkStartupKinds), pi \in 1..Len(BulkInvestorKinds) :
        /\ startups = BulkDocs(BulkStartupKinds, ns, ps, 1)
        /\ investors = BulkDocs(BulkInvestorKinds, ni, pi, ns + 1)
        /\ activitylog = <<>>
        /\ nextOid = ns + ni + 1
        /\ client_id = None
        /\ req = NoReq
        /\ resp = NoResp
        /\ returned = {<<"startup", OidStr(startups[k]["_id"])>> : k \in DOMAIN startups}
                      \cup {<<"investor", OidStr(investors[k]["_id"])>> : k \in DOMAIN investors}

BulkBodies ==
    { MatchQuery(ind, st, geo, t, t) :
        ind \in {None, Some(<<"fintech", "ai">>)},
        st \in {None, Some("seed")},
        geo \in {None, Some("eu")},
        t \in {None, Some(100)} }

\* get_matches leaves the store as it is, so a second request would start
\* from the same store: one request per behaviour reaches every state
NextBulk ==
    /\ req = NoReq
    /\ \E b \in BulkBodies, up \in BOOLEAN : get_matches(b, up)

SpecBulk == InitBulk /\ [][NextBulk]_vars

-----------------------------------------------------------------------------
(* The overlap study: one startup, one investor, tag lists of every overlap *)

Tag(n) == ToString(n)

\* the tags of a set of tag numbers as a list, in increasing order
RECURSIVE TagList(_)
TagList(S) ==
    IF S = {} THEN <<>>
    ELSE LET m == CHOOSE x \in S : \A y \in S : x <= y
         IN  <<Tag(m)>> \o TagList(S \ {m})

\* every list of distinct tags, and the same list with every tag repeated
TagLists ==
    {TagList(S) : S \in SUBSET (1..NumTags)}
    \cup {TagList(S) \o TagList(S) : S \in SUBSET (1..NumTags)}

InitOverlap ==
    \E ind \in TagLists :
        /\ startups = << Stored(StartupPayload(Some(<<"a">>), None, ind, Some("seed")), 1) >>
        /\ investors = << Stored(InvestorPayload(Some(<<"b">>), <<>>, <<"seed">>,
                                                 None, None, None), 2) >>
        /\ activitylog = <<>>
        /\ nextOid = 3
        /\ client_id = None
        /\ req = NoReq
        /\ resp = NoResp
        /\ returned = {<<"startup", OidStr(1)>>, <<"investor", OidStr(2)>>}

OverlapBodies ==
    { MatchQuery(ind, st, None, None, None) :
        ind \in {None} \cup {Some(l) : l \in TagLists},
        st \in {None, Some("seed")} }

NextOverlap ==
    /\ req = NoReq
    /\ \E b \in OverlapBodies, up \in BOOLEAN : get_matches(b, up)

SpecOverlap == InitOverlap /\ [][NextOverlap]_vars

-----------------------------------------------------------------------------
(* Google Auth (ID token verify) *)

\* the answer of an HTTPException(status_code, detail)
HttpError(status, detail) == [op |-> "auth_google", status |-> status, detail |-> detail]

\* faulty variant: any exception is answered as an authentication failure
OnExceptionUnauthorized(e) == HttpError(401, e)

\* except Exception as e: raise HTTPException(status_code=500, detail=str(e)[:200])
\* (e stands for the exception's text)
OnException(e) == HttpError(500, e)

\* faulty variant: the audience is never compared
AudienceNeverRejected(cid, aud) == FALSE

\* if client_id and aud != client_id
AudienceRejected(cid, aud) == TruthyStr(cid) /\ aud # cid

\* the minimal profile payload: info.get(...) of seven fixed keys
Profile(info) ==
    [sub |-> info.sub, email |-> info.email, email_verified |-> info.email_verified,
     name |-> info.name, picture |-> info.picture,
     given_name |-> info.given_name, family_name |-> info.family_name]

\* the activity record of a sign-in
SignInLog(profile) ==
    [user_id |-> IF TruthyStr(profile.sub) THEN profile.sub[1] ELSE "unknown",
     user_type |-> "startup",
     action |-> "google_sign_in",
     meta |-> [email |-> profile.email]]

\* faulty variant: the log write is not guarded, its exception reaches the
\* handler's except clause
AfterLogRaising(profile, log_ok) ==
    IF log_ok
    THEN [op |-> "auth_google", status |-> 200, ok |-> TRUE, profile |-> profile]
    ELSE OnException("ConnectivityError")

\* try: create_document("activitylog", ...) except Exception: pass
\* return {"ok": True, "profile": profile}
AfterLog(profile, log_ok) ==
    [op |-> "auth_google", status |-> 200, ok |-> TRUE, profile |-> profile]

\* POST /api/auth/google.  reply is what requests.get meets: a timeout, or a
\* response with a status and a body that parses as JSON or does not;
\* log_ok tells whether the store takes the activity record
auth_google(reply, log_ok) ==
    /\ req' = [op |-> "auth_google", reply |-> reply, log_ok |-> log_ok]
    /\ IF reply.timeout
       THEN /\ resp' = OnException("Timeout")
            /\ UNCHANGED <<activitylog, nextOid>>
       ELSE IF reply.status # 200
       THEN /\ resp' = HttpError(401, "Invalid Google token")
            /\ UNCHANGED <<activitylog, nextOid>>
       ELSE IF ~reply.json_ok
       THEN /\ resp' = OnException("JSONDecodeError")
            /\ UNCHANGED <<activitylog, nextOid>>
       ELSE IF AudienceRejected(client_id, reply.info.aud)
       THEN /\ resp' = HttpError(401, "Token audience mismatch")
            /\ UNCHANGED <<activitylog, nextOid>>
       ELSE /\ resp' = AfterLog(Profile(reply.info), log_ok)
            /\ IF log_ok
               THEN /\ activitylog' = Append(activitylog,
                           Stored(SignInLog(Profile(reply.info)), nextOid))
                    /\ nextOid' = nextOid + 1
               ELSE UNCHANGED <<activitylog, nextOid>>
    /\ UNCHANGED <<startups, investors, client_id, returned>>

-----------------------------------------------------------------------------
(* Inputs of the sign-in study *)

ClientIds == {None, Some(""), Some("app-1")}

TokenInfos ==
    { [aud |-> aud, sub |-> sub, email |-> email, email_verified |-> None,
       name |-> None, picture |-> None, given_name |-> None, family_name |-> None] :
        aud \in {None, Some("app-1"), Some("app-2")},
        sub \in {None, Some("u1")},
        email \in {None, Some("u1@example.org")} }

Replies ==
    { [timeout |-> t, status |-> st, json_ok |-> j, info |-> info] :
        t \in BOOLEAN, st \in {200, 400}, j \in BOOLEAN, info \in TokenInfos }

InitAuth == \E cid \in ClientIds : InitWith(cid)

NextAuth ==
    /\ Len(activitylog) < MaxLog
    /\ \E reply \in Replies, log_ok \in BOOLEAN : auth_google(reply, log_ok)

SpecAuth == InitAuth /\ [][NextAuth]_vars

-----------------------------------------------------------------------------
(* Properties *)

InList(x, seq) == \E k \in DOMAIN seq : seq[k] = x
Elems(seq) == {seq[k] : k \in DOMAIN seq}
IdOf(d) == Some(OidStr(d["_id"]))
ListedIds == {resp.docs[k]["_id"] : k \in DOMAIN resp.docs}
Unfiltered(a, b, c) == a = None /\ b = None /\ c = None

Supplied(o) == o # None /\ o[1] # ""

StartupFits(d, r) ==
    /\ Supplied(r.industry) => InList(r.industry[1], d.industry)
    /\ Supplied(r.stage) => d.stage = r.stage
    /\ r.q # None => \/ ContainsCI(d.name[1], r.q[1])
                     \/ d.tagline # None /\ ContainsCI(d.tagline[1], r.q[1])

InvestorFits(d, r) ==
    /\ Supplied(r.domain) => InList(r.domain[1], d.domains)
    /\ Supplied(r.stage) => InList(r.stage[1], d.preferred_stage)
    /\ Supplied(r.geo) => d.geography = r.geo

\* the answer holds exactly the stored records that fit, each with its fields
ListsExactly(coll, Fits(_, _)) ==
    /\ \A k \in DOMAIN resp.docs :
          \E j \in DOMAIN coll :
             /\ resp.docs[k]["_id"] = IdOf(coll[j])
             /\ \A f \in DOMAIN coll[j] \ {"_id"} : resp.docs[k][f] = coll[j][f]
             /\ Fits(coll[j], req)
    /\ \A j \in DOMAIN coll : Fits(coll[j], req) => IdOf(coll[j]) \in ListedIds

\* C9: listing filters are conjunctive: a listing answers exactly the stored
\* records that satisfy every supplied filter (industry, stage and q for
\* startups; domain, stage and geo for investors).
C9_FiltersConjunctive ==
    /\ (resp.op = "list_startups" /\ resp.status = 200) => ListsExactly(startups, StartupFits)
    /\ (resp.op = "list_investors" /\ resp.status = 200) => ListsExactly(investors, InvestorFits)

\* both an industry and a stage filter: a record with the industry but another
\* stage is left out, one with both is answered
C9_Witness ==
    /\ resp.op = "list_startups" /\ resp.status = 200
    /\ Supplied(req.industry) /\ Supplied(req.stage)
    /\ Len(resp.docs) = 1
    /\ \E j \in DOMAIN startups :
          /\ InList(req.industry[1], startups[j].industry)
          /\ startups[j].stage # req.stage
          /\ IdOf(startups[j]) \notin ListedIds

-----------------------------------------------------------------------------
(* Properties of the matching engine *)

Clamp01(x) == IF x < 0 THEN 0 ELSE IF x > 1000 THEN 1000 ELSE x

SharedTags(si, p) ==
    {t \in Elems(si.industry) : p.industry # None /\ InList(t, p.industry[1])}

HasIndustry(p) == p.industry # None /\ p.industry[1] # <<>>

\* the industry, ticket floor and ticket ceiling signals as the specification
\* words them
StatedIndustry(si, p) ==
    IF HasIndustry(p)
    THEN (IF Cardinality(SharedTags(si, p)) >= 4 THEN 400
          ELSE 100 * Cardinality(SharedTags(si, p)))
    ELSE 0

StatedTickets(inv, p) ==
    (IF inv.ticket_min # None /\ p.ticket_min # None
        /\ inv.ticket_min[1] <= p.ticket_min[1] THEN 150 ELSE 0)
    + (IF inv.ticket_max # None /\ p.ticket_max # None
          /\ inv.ticket_max[1] >= p.ticket_max[1] THEN 150 ELSE 0)

\* the five signals with stage and geography compared as they stand: an absent
\* preference equals an absent field
StatedScore(si, inv, p) ==
    Clamp01(StatedIndustry(si, p)
            + (IF p.stage = si.stage THEN 200 ELSE 0)
            + (IF p.geography = inv.geography THEN 100 ELSE 0)
            + StatedTickets(inv, p))

\* the five signals with stage and geography counted only for a preference
\* that is present and not empty
GuardedScore(si, inv, p) ==
    Clamp01(StatedIndustry(si, p)
            + (IF Supplied(p.stage) /\ p.stage = si.stage THEN 200 ELSE 0)
            + (IF Supplied(p.geography) /\ p.geography = inv.geography THEN 100 ELSE 0)
            + StatedTickets(inv, p))

\* every stored pair scores Expected, and every Match answered carries the
\* Expected score of its pair
ScoresAre(Expected(_, _, _)) ==
    (resp.op = "get_matches" /\ resp.status = 200) =>
        /\ \A si \in Elems(startups), inv \in Elems(investors) :
              score(si, inv, req.body) = Expected(si, inv, req.body)
        /\ \A m \in Elems(resp.matches) :
              \E si \in Elems(startups), inv \in Elems(investors) :
                 /\ m.a_id = OidStr(si["_id"]) /\ m.b_id = OidStr(inv["_id"])
                 /\ m.score = Expected(si, inv, req.body)
        /\ \A si \in Elems(startups), inv \in Elems(investors) :
              Expected(si, inv, req.body) >= 200 =>
                 \E m \in Elems(resp.matches) :
                    m.a_id = OidStr(si["_id"]) /\ m.b_id = OidStr(inv["_id"])

\* C2 as stated: the score of every pair is the clamped sum of the five
\* signals, geography counting +0.1 whenever p.geography equals i.geography
\* and stage +0.2 whenever p.stage equals s.stage, absent fields included.
C2_AsStated == ScoresAre(StatedScore)

\* C2 amended: the score of every pair is the clamped sum of the five signals,
\* where stage and geography count only when the preference's field is present
\* and not empty (and equals the startup's stage, the investor's geography).
C2_ScoreIsGuardedSum == ScoresAre(GuardedScore)

\* a pair that collects every signal: 0.4 + 0.2 + 0.1 + 0.15 + 0.15
C2_Witness ==
    /\ resp.op = "get_matches" /\ resp.status = 200
    /\ Supplied(req.body.stage) /\ Supplied(req.body.geography)
    /\ \E m \in Elems(resp.matches) : m.score = 1000

\* C6: the score of every pair, and the score of every Match answered, lies
\* in [0, 1].
C6_ScoreInUnitInterval ==
    resp.op = "get_matches" =>
        /\ \A si \in Elems(startups), inv \in Elems(investors) :
              score(si, inv, req.body) >= 0 /\ score(si, inv, req.body) <= 1000
        /\ resp.status = 200 =>
              \A m \in Elems(resp.matches) : m.score >= 0 /\ m.score <= 1000

\* the upper end is met: the sum of a pair reaches 1.0 and its Match is answered
C6_Witness ==
    /\ resp.op = "get_matches" /\ resp.status = 200
    /\ \E si \in Elems(startups), inv \in Elems(investors) :
          /\ RawScore(si, inv, req.body) = One
          /\ \E m \in Elems(resp.matches) :
                m.a_id = OidStr(si["_id"]) /\ m.b_id = OidStr(inv["_id"]) /\ m.score = One

\* C3: with a non-empty preference.industry the industry component is 0.1 per
\* distinct shared tag up to four tags and 0.4 from four tags on; with all
\* else fixed it is what the preference adds to the score.
C3_IndustryComponent ==
    (resp.op = "get_matches" /\ HasIndustry(req.body)) =>
        \A si \in Elems(startups) :
            LET n == Cardinality(SharedTags(si, req.body))
                stated == IF n >= 4 THEN 400 ELSE 100 * n
                without == [req.body EXCEPT !.industry = None]
            IN  /\ IndustryComponent(si, req.body) = stated
                /\ \A inv \in Elems(investors) :
                      /\ score(si, inv, req.body) - score(si, inv, without) = stated
                      /\ (resp.status = 200 /\ score(si, inv, without) + stated >= 200)
                            => /\ Len(resp.matches) = 1
                               /\ resp.matches[1].score = score(si, inv, without) + stated

\* five shared tags, listed twice by the startup, still count 0.4
C3_Witness ==
    /\ resp.op = "get_matches" /\ resp.status = 200 /\ HasIndustry(req.body)
    /\ Cardinality(SharedTags(startups[1], req.body)) = 5
    /\ Len(startups[1].industry) = 10
    /\ Len(resp.matches) = 1 /\ resp.matches[1].score = 600

StoredPairs == {<<si, inv>> : si \in Elems(startups), inv \in Elems(investors)}
PairIds(pr) == <<OidStr(pr[1]["_id"]), OidStr(pr[2]["_id"])>>
Survivors == {pr \in StoredPairs : score(pr[1], pr[2], req.body) >= 200}
AnsweredIds == {<<m.a_id, m.b_id>> : m \in Elems(resp.matches)}

\* C4: no Match answered belongs to a pair scoring below 0.2; when the store
\* answers and every pair scores below 0.2, or there are no startups or no
\* investors, the answer is the empty list, not an error.
C4_BelowThresholdDropped ==
    resp.op = "get_matches" =>
        /\ resp.status = 200 =>
              \A m \in Elems(resp.matches) :
                 /\ m.score >= 200
                 /\ \E pr \in Survivors : PairIds(pr) = <<m.a_id, m.b_id>>
        /\ (req.up /\ Survivors = {}) => resp.status = 200 /\ resp.matches = <<>>

\* some pairs are answered while a pair with a positive score below 0.2 is not
C4_Witness ==
    /\ resp.op = "get_matches" /\ resp.status = 200
    /\ resp.matches # <<>>
    /\ \E pr \in StoredPairs :
          /\ score(pr[1], pr[2], req.body) \in 1..199
          /\ PairIds(pr) \notin AnsweredIds

\* C5: the answer has at most 50 Matches, in non-increasing order of score,
\* and is a prefix of the sorted survivors: one Match per pair, as many as the
\* cap allows, and no survivor left out scores more than a Match answered.
C5_SortedAndCapped ==
    (resp.op = "get_matches" /\ resp.status = 200) =>
        /\ Len(resp.matches) <= 50
        /\ \A k \in 1..(Len(resp.matches) - 1) :
              resp.matches[k].score >= resp.matches[k + 1].score
        /\ Len(resp.matches) = Min(50, Cardinality(Survivors))
        /\ Cardinality(AnsweredIds) = Len(resp.matches)
        /\ AnsweredIds \subseteq {PairIds(pr) : pr \in Survivors}
        /\ \A pr \in Survivors :
              PairIds(pr) \notin AnsweredIds =>
                 \A m \in Elems(resp.matches) : Round2(score(pr[1], pr[2], req.body)) <= m.score

\* more than 50 survivors: 50 are answered, of differing scores
C5_Witness ==
    /\ resp.op = "get_matches" /\ resp.status = 200
    /\ Cardinality(Survivors) > 50
    /\ Len(resp.matches) = 50
    /\ resp.matches[1].score > resp.matches[50].score

-----------------------------------------------------------------------------
(* Properties of the sign-in handler *)

AuthFailure == resp.status = 401 /\ "profile" \notin DOMAIN resp
Answered == resp.op = "auth_google" /\ ~req.reply.timeout
Parsed == Answered /\ req.reply.status = 200 /\ req.reply.json_ok

\* C7 as stated: a non-200 introspection answer, or an audience in it that
\* differs from the expected audience GOOGLE_CLIENT_ID, is answered with an
\* authentication failure and no profile.
C7_AsStated ==
    /\ (Answered /\ req.reply.status # 200) => AuthFailure
    /\ (Parsed /\ req.reply.info.aud # None /\ req.reply.info.aud # client_id)
          => AuthFailure

\* C7 amended: a non-200 introspection answer is answered with an
\* authentication failure and no profile; so is an audience that differs from
\* the expected audience when GOOGLE_CLIENT_ID is set and not empty.
C7_RejectsBadToken ==
    /\ (Answered /\ req.reply.status # 200) => AuthFailure
    /\ (Parsed /\ Supplied(client_id) /\ req.reply.info.aud # client_id) => AuthFailure

C7_Witness ==
    /\ Parsed /\ Supplied(client_id)
    /\ req.reply.info.aud # None /\ req.reply.info.aud # client_id
    /\ AuthFailure /\ resp.detail = "Token audience mismatch"

\* C8 as stated: a timeout of the introspection call is answered with an
\* authentication failure, as a non-200 introspection answer is, and no profile.
C8_AsStated ==
    (resp.op = "auth_google" /\ req.reply.timeout) => AuthFailure

\* C8 amended: a timeout of the introspection call fails closed with a server
\* error (status 500), not the authentication failure (401) of a non-200
\* answer; no profile is returned.
C8_TimeoutIsServerError ==
    (resp.op = "auth_google" /\ req.reply.timeout) =>
        resp.status = 500 /\ "profile" \notin DOMAIN resp

C8_Witness ==
    /\ resp.op = "auth_google" /\ req.reply.timeout
    /\ resp.status = 500
    /\ activitylog # <<>>

\* C10: after a 200 answer whose audience is accepted, the handler answers
\* {ok: true, profile} with the profile fields of the answer, whether or not
\* the activity-log write succeeds.
C10_LogFailureSwallowed ==
    (Parsed /\ ~(Supplied(client_id) /\ req.reply.info.aud # client_id)) =>
        /\ resp.status = 200
        /\ resp.ok = TRUE
        /\ \A f \in {"sub", "email", "email_verified", "name", "picture",
                     "given_name", "family_name"} :
              resp.profile[f] = req.reply.info[f]
        /\ DOMAIN resp.profile = {"sub", "email", "email_verified", "name",
                                  "picture", "given_name", "family_name"}

\* the log write fails after a sign-in that was logged, and the profile is answered
C10_Witness ==
    /\ Parsed /\ ~req.log_ok
    /\ resp.status = 200 /\ resp.profile.sub = Some("u1")
    /\ Len(activitylog) = 1

====
